---- MODULE Spec2Model ----
\* Verification model of Adalanche's local-machine analyzer (edge kinds,
\* probability calculators, MapSID), the analysis web service's UnionFS and the
\* command line's PersistentPreRunE / PersistentPostRunE hooks.
\*
\* Four independent subsystems share this module.  Each has its own
\* specification (SpecSID, SpecGraph, SpecFS, SpecCli / FairSpecCli); the
\* variables of the other subsystems are pinned by Idle* and left UNCHANGED.
EXTENDS Integers, Sequences, FiniteSets, TLC

VARIABLES
    \* --- MapSID harness (analyzer.go) ---
    original, new, input, mapped, again, back, sidpc,
    \* --- graph, probability calculators, path query ---
    edges, phase, path, visited, score, lastEval,
    \* --- UnionFS / webservice (webservice.go) ---
    filesystems, staticfs, localhtml, wspc, content, isdir, request, opened, exists,
    \* --- cli (main.go) ---
    pc, dofgtrace, cpuprofile, cpuprofiletimeout, stopprofile, stopfgtrace,
    profilewriters, stopper, timer, stops, prerunhooks, hooksrun, datapath,
    result

sidVars == <<original, new, input, mapped, again, back, sidpc>>
graphVars == <<edges, phase, path, visited, score, lastEval>>
fsVars == <<filesystems, staticfs, localhtml, wspc, content, isdir, request, opened, exists>>
cliVars == <<pc, dofgtrace, cpuprofile, cpuprofiletimeout, stopprofile, stopfgtrace,
             profilewriters, stopper, timer, stops, prerunhooks, hooksrun, datapath,
             result>>
vars == <<sidVars, graphVars, fsVars, cliVars>>

\* A step of one subsystem leaves the others alone.
OnlySID == UNCHANGED <<graphVars, fsVars, cliVars>>
OnlyGraph == UNCHANGED <<sidVars, fsVars, cliVars>>
OnlyFS == UNCHANGED <<sidVars, graphVars, cliVars>>
OnlyCli == UNCHANGED <<sidVars, graphVars, fsVars>>

\* ---------------------------------------------------------------------------
\* Bounds
\* ---------------------------------------------------------------------------
MaxRID == 2
MaxPrefixLen == 2
MaxEdges == 2
MaxDepth == 2
MaxFS == 3
MaxLocalHTML == 2
MaxHooks == 2

\* ---------------------------------------------------------------------------
\* Security identifiers: an ordered sequence of numeric components.
\* ---------------------------------------------------------------------------
RECURSIVE SeqsUpTo(_, _)
SeqsUpTo(S, n) ==
    IF n = 0 THEN {<<>>}
    ELSE LET shorter == SeqsUpTo(S, n - 1)
         IN  shorter \cup {Append(s, x) : s \in {t \in shorter : Len(t) = n - 1}, x \in S}

SIDs(maxlen) == SeqsUpTo(1..MaxRID, maxlen)

\* A result slot that no call has filled yet.
NoSID == <<0>>

\* windowssecurity.SID.Components: the component count.
Components(sid) == Len(sid)

\* windowssecurity.SID.RID: the last component (0 when there is none).
RID(sid) == IF Len(sid) = 0 THEN 0 ELSE sid[Len(sid)]

\* windowssecurity.SID.StripRID: drop the last component.
StripRID(sid) == IF Len(sid) = 0 THEN <<>> ELSE SubSeq(sid, 1, Len(sid) - 1)

\* windowssecurity.SID.AddComponent: attach a relative identifier to a prefix.
AddComponent(sid, component) == Append(sid, component)

\* Mutant: the length test alone decides, the prefix is not compared.
MapSIDNoPrefixCheck(o, n, i) ==
    IF Components(i) = Components(o) + 1
    THEN AddComponent(n, RID(i))
    ELSE i

\* Mutant: the relative identifier is taken from the wrong argument.
MapSIDWrongRID(o, n, i) ==
    IF Components(i) = Components(o) + 1
    THEN IF StripRID(i) = o
         THEN AddComponent(n, RID(o))
         ELSE i
    ELSE i

\* analyzer.go MapSID, as written: nested tests, the fall-through returns input.
MapSID(o, n, i) ==
    IF Components(i) = Components(o) + 1
    THEN IF StripRID(i) = o
         THEN AddComponent(n, RID(i))
         ELSE i
    ELSE i

IdleSID ==
    /\ original = <<>>
    /\ new = <<>>
    /\ input = <<>>
    /\ mapped = NoSID
    /\ again = NoSID
    /\ back = NoSID
    /\ sidpc = "idle"

SIDInit ==
    /\ original \in SIDs(MaxPrefixLen)
    /\ new \in SIDs(MaxPrefixLen)
    /\ input \in SIDs(MaxPrefixLen + 1)
    /\ mapped = NoSID
    /\ again = NoSID
    /\ back = NoSID
    /\ sidpc = "input"

\* mapped := MapSID(original, new, input)
CallMapSID ==
    /\ sidpc = "input"
    /\ mapped' = MapSID(original, new, input)
    /\ sidpc' = "mapped"
    /\ UNCHANGED <<original, new, input, again, back>>
    /\ OnlySID

\* again := MapSID(original, new, mapped)
CallMapSIDAgain ==
    /\ sidpc = "mapped"
    /\ again = NoSID
    /\ again' = MapSID(original, new, mapped)
    /\ UNCHANGED <<original, new, input, mapped, back, sidpc>>
    /\ OnlySID

\* back := MapSID(new, original, mapped)
CallMapSIDBack ==
    /\ sidpc = "mapped"
    /\ back = NoSID
    /\ back' = MapSID(new, original, mapped)
    /\ UNCHANGED <<original, new, input, mapped, again, sidpc>>
    /\ OnlySID

\* ---------------------------------------------------------------------------
\* Edge kinds of the local-machine analyzer, their tags and calculators.
\* ---------------------------------------------------------------------------
EdgeLocalAdminRights == "AdminRights"
EdgeLocalRDPRights == "RDPRights"
EdgeLocalDCOMRights == "DCOMRights"
EdgeLocalSMSAdmins == "SMSAdmins"
EdgeLocalSessionLastDay == "SessionLastDay"
EdgeLocalSessionLastWeek == "SessionLastWeek"
EdgeLocalSessionLastMonth == "SessionLastMonth"
EdgeHasServiceAccountCredentials == "SvcAccntCreds"
EdgeMemberOfGroup == "MemberOfGroup"
EdgeSeImpersonate == "SeImpersonate"
EdgeSeNetworkLogonRight == "SeNetworkLogonRight"
EdgeSIDCollision == "SIDCollision"
EdgePublishes == "Publishes"

EdgeKinds ==
    {EdgeLocalAdminRights, EdgeLocalRDPRights, EdgeLocalDCOMRights, EdgeLocalSMSAdmins,
     EdgeLocalSessionLastDay, EdgeLocalSessionLastWeek, EdgeLocalSessionLastMonth,
     EdgeHasServiceAccountCredentials, EdgeMemberOfGroup, EdgeSeImpersonate,
     EdgeSeNetworkLogonRight, EdgeSIDCollision, EdgePublishes}

\* The objects of the sample graph: a well-known principal and two machines.
Objects == {"everyone", "machineA", "machineB"}

\* Mutant: the collision edge kind loses its Informative tag.
TagsCollisionUntagged(kind) ==
    CASE kind = EdgeLocalAdminRights -> {"Granted"}
      [] kind = EdgeLocalRDPRights -> {"Granted", "Pivot"}
      [] kind \in {EdgeLocalDCOMRights, EdgeLocalSMSAdmins} -> {"Granted"}
      [] kind \in {EdgeLocalSessionLastDay, EdgeLocalSessionLastWeek,
                   EdgeLocalSessionLastMonth, EdgeHasServiceAccountCredentials,
                   EdgeSeImpersonate} -> {"Pivot"}
      [] kind = EdgePublishes -> {"Informative"}
      [] OTHER -> {}

\* The .Tag(...) calls of each NewEdge chain.
Tags(kind) ==
    CASE kind = EdgeLocalAdminRights -> {"Granted"}
      [] kind = EdgeLocalRDPRights -> {"Granted", "Pivot"}
      [] kind \in {EdgeLocalDCOMRights, EdgeLocalSMSAdmins} -> {"Granted"}
      [] kind \in {EdgeLocalSessionLastDay, EdgeLocalSessionLastWeek,
                   EdgeLocalSessionLastMonth, EdgeHasServiceAccountCredentials,
                   EdgeSeImpersonate} -> {"Pivot"}
      [] kind \in {EdgeSIDCollision, EdgePublishes} -> {"Informative"}
      [] OTHER -> {}

\* What one calculator evaluation did: the probability it returned, the
\* neighbours it read through target.Edges(engine.In), and the probability
\* evaluations (kind, source, target) it triggered in turn.
Returns(p) == [registered |-> TRUE, probability |-> p, walked |-> {}, invoked |-> {}]

\* An edge kind whose descriptor holds no calculator (a nil function).
NoCalculator == [registered |-> FALSE, probability |-> 0, walked |-> {}, invoked |-> {}]

\* Mutant: the traversal that the source keeps commented out ("ENDLESS LOOPS")
\* is enabled: walk the target's inbound edges and, at the first well-known
\* principal, ask for the maximum probability of the edges from it to the target.
RDPRightsCalculatorWalking(source, target) ==
    LET inbound == {e.source : e \in {x \in edges : x.target = target}}
        hits == inbound \cap {"everyone"}
        calls == {<<e.kind, e.source, e.target>> :
                    e \in {x \in edges : x.target = target /\ x.source \in hits}}
    IN  [registered |-> TRUE,
         probability |-> 30,
         walked |-> inbound,
         invoked |-> calls]

\* The calculator registered on RDPRights: probability starts at the zero
\* value, the traversal is commented out, the floor of 30 applies.
RDPRightsCalculator(source, target) ==
    LET probability == 0
    IN  Returns(IF probability < 30 THEN 30 ELSE probability)

\* Mutant: a typo in one constant, 180 for 80.
CalculatorTypo(kind, source, target) ==
    CASE kind = EdgeLocalRDPRights -> RDPRightsCalculator(source, target)
      [] kind = EdgeLocalDCOMRights -> Returns(50)
      [] kind = EdgeLocalSMSAdmins -> Returns(50)
      [] kind = EdgeLocalSessionLastDay -> Returns(180)
      [] kind = EdgeLocalSessionLastWeek -> Returns(55)
      [] kind = EdgeLocalSessionLastMonth -> Returns(30)
      [] kind = EdgeSeImpersonate -> Returns(20)
      [] kind = EdgeSeNetworkLogonRight -> Returns(10)
      [] kind = EdgeSIDCollision -> Returns(0)
      [] OTHER -> NoCalculator

\* Mutant: SessionLastMonth carries SessionLastWeek's calculator.
CalculatorMonthAsWeek(kind, source, target) ==
    CASE kind = EdgeLocalRDPRights -> RDPRightsCalculator(source, target)
      [] kind = EdgeLocalDCOMRights -> Returns(50)
      [] kind = EdgeLocalSMSAdmins -> Returns(50)
      [] kind = EdgeLocalSessionLastDay -> Returns(80)
      [] kind = EdgeLocalSessionLastWeek -> Returns(55)
      [] kind = EdgeLocalSessionLastMonth -> Returns(55)
      [] kind = EdgeSeImpersonate -> Returns(20)
      [] kind = EdgeSeNetworkLogonRight -> Returns(10)
      [] kind = EdgeSIDCollision -> Returns(0)
      [] OTHER -> NoCalculator

\* Mutant: AdminRights is registered with a calculator as DCOMRights is.
CalculatorOnAdminRights(kind, source, target) ==
    CASE kind = EdgeLocalRDPRights -> RDPRightsCalculator(source, target)
      [] kind = EdgeLocalAdminRights -> Returns(50)
      [] kind = EdgeLocalDCOMRights -> Returns(50)
      [] kind = EdgeLocalSMSAdmins -> Returns(50)
      [] kind = EdgeLocalSessionLastDay -> Returns(80)
      [] kind = EdgeLocalSessionLastWeek -> Returns(55)
      [] kind = EdgeLocalSessionLastMonth -> Returns(30)
      [] kind = EdgeSeImpersonate -> Returns(20)
      [] kind = EdgeSeNetworkLogonRight -> Returns(10)
      [] kind = EdgeSIDCollision -> Returns(0)
      [] OTHER -> NoCalculator

\* The RegisterProbabilityCalculator calls: the function each edge kind holds.
Calculator(kind, source, target) ==
    CASE kind = EdgeLocalRDPRights -> RDPRightsCalculator(source, target)
      [] kind = EdgeLocalDCOMRights -> Returns(50)
      [] kind = EdgeLocalSMSAdmins -> Returns(50)
      [] kind = EdgeLocalSessionLastDay -> Returns(80)
      [] kind = EdgeLocalSessionLastWeek -> Returns(55)
      [] kind = EdgeLocalSessionLastMonth -> Returns(30)
      [] kind = EdgeSeImpersonate -> Returns(20)
      [] kind = EdgeSeNetworkLogonRight -> Returns(10)
      [] kind = EdgeSIDCollision -> Returns(0)
      [] OTHER -> NoCalculator

\* The engine's dispatch: the kind's calculator when it has one, else maximal.
EdgeProbability(kind, source, target) ==
    LET r == Calculator(kind, source, target)
    IN  IF r.registered THEN r ELSE [r EXCEPT !.probability = 100]

Min(a, b) == IF a < b THEN a ELSE b

NoEval ==
    [kind |-> "none", source |-> "none", target |-> "none",
     registered |-> FALSE, probability |-> 0, walked |-> {}, invoked |-> {}]

IdleGraph ==
    /\ edges = {}
    /\ phase = "idle"
    /\ path = <<>>
    /\ visited = {}
    /\ score = 100
    /\ lastEval = NoEval

GraphInit ==
    /\ edges = {}
    /\ phase = "import"
    /\ path = <<>>
    /\ visited = {}
    /\ score = 100
    /\ lastEval = NoEval

\* Objects.AddEdge: set the edge kind's bit between the pair (idempotent).
AddEdge(source, target, kind) ==
    /\ phase = "import"
    /\ source # target
    /\ Cardinality(edges) < MaxEdges
    /\ edges' = edges \cup {[source |-> source, kind |-> kind, target |-> target]}
    /\ UNCHANGED <<phase, path, visited, score, lastEval>>
    /\ OnlyGraph

\* The single-writer import phase ends; the graph is read-only from here on.
FinishImport ==
    /\ phase = "import"
    /\ phase' = "query"
    /\ UNCHANGED <<edges, path, visited, score, lastEval>>
    /\ OnlyGraph

\* A path query starts at one object of the start set.
StartPath(start) ==
    /\ phase = "query"
    /\ visited = {}
    /\ visited' = {start}
    /\ UNCHANGED <<edges, phase, path, score, lastEval>>
    /\ OnlyGraph

PathEnd == IF path = <<>> THEN CHOOSE o \in visited : TRUE ELSE path[Len(path)].target

\* The query follows one edge from the end of the in-flight path: the edge's
\* probability is evaluated now, for this (source, target) pair, and joins the
\* path score unless the edge kind is tagged Informative.
Traverse(e) ==
    /\ phase = "query"
    /\ visited # {}
    /\ Len(path) < MaxDepth
    /\ e \in edges
    /\ e.source = PathEnd
    /\ e.target \notin visited
    /\ LET r == EdgeProbability(e.kind, e.source, e.target)
       IN  /\ path' = Append(path, [source |-> e.source, kind |-> e.kind,
                                    target |-> e.target, probability |-> r.probability])
           /\ score' = IF "Informative" \in Tags(e.kind)
                       THEN score
                       ELSE Min(score, r.probability)
           /\ lastEval' = [kind |-> e.kind, source |-> e.source, target |-> e.target,
                           registered |-> r.registered, probability |-> r.probability,
                           walked |-> r.walked, invoked |-> r.invoked]
    /\ visited' = visited \cup {e.target}
    /\ UNCHANGED <<edges, phase>>
    /\ OnlyGraph

\* ---------------------------------------------------------------------------
\* UnionFS and the web service's Start.
\* ---------------------------------------------------------------------------
Files == {"index.html", "custom.js"}
Folders == {"html-a", "html-b"}
Embedded == "embedded"
FileSystems == Folders \cup {Embedded}

ErrNotExist == "os.ErrNotExist"
NoError == "nil"
NoFile == <<>>
NoRequest == [via |-> "none", filename |-> "none", fss |-> <<>>, started |-> FALSE]
NoResult == [file |-> NoFile, err |-> "none"]

\* http.FileSystem.Open of one member: it opens exactly the names it holds.
FSOpen(fs, filename) ==
    IF filename \in content[fs]
    THEN [file |-> <<fs, filename>>, err |-> NoError]
    ELSE [file |-> NoFile, err |-> "open failed"]

\* The loop of UnionFS.Open from index i on: the first member that opens the
\* name without error wins, os.ErrNotExist after the last.
RECURSIVE OpenFrom(_, _, _)
OpenFrom(fss, filename, i) ==
    IF i > Len(fss)
    THEN [file |-> NoFile, err |-> ErrNotExist]
    ELSE LET r == FSOpen(fss[i], filename)
         IN  IF r.err = NoError THEN r ELSE OpenFrom(fss, filename, i + 1)

\* Mutant helper: the loop run from the far end, the last member that opens the name wins.
RECURSIVE OpenDownFrom(_, _, _)
OpenDownFrom(fss, filename, i) ==
    IF i < 1
    THEN [file |-> NoFile, err |-> ErrNotExist]
    ELSE LET r == FSOpen(fss[i], filename)
         IN  IF r.err = NoError THEN r ELSE OpenDownFrom(fss, filename, i - 1)

\* Mutant: later members override earlier ones.
UnionFSOpenLastWins(fss, filename) == OpenDownFrom(fss, filename, Len(fss))

\* UnionFS.Open
UnionFSOpen(fss, filename) == OpenFrom(fss, filename, 1)

\* UnionFS.Exists: the prefix is not used.
UnionFSExists(fss, prefix, filename) == UnionFSOpen(fss, filename).err # ErrNotExist

\* The localhtml loop of Start from index i on: a folder that stats as a
\* directory is added, anything else is fatal (ui.Fatal ends the process).
RECURSIVE AddLocalHTML(_, _, _)
AddLocalHTML(fss, htmls, i) ==
    IF i > Len(htmls)
    THEN [filesystems |-> fss, fatal |-> FALSE]
    ELSE IF isdir[htmls[i]]
         THEN AddLocalHTML(Append(fss, htmls[i]), htmls, i + 1)
         ELSE [filesystems |-> fss, fatal |-> TRUE]

IdleFS ==
    /\ filesystems = <<>>
    /\ staticfs = <<>>
    /\ localhtml = <<>>
    /\ wspc = "idle"
    /\ content = [fs \in FileSystems |-> {}]
    /\ isdir = [d \in Folders |-> FALSE]
    /\ request = NoRequest
    /\ opened = NoResult
    /\ exists = FALSE

\* The environment: what the embedded assets and each local folder hold.  A
\* path that is no directory holds nothing.
FSInit ==
    /\ filesystems = <<>>
    /\ staticfs = <<>>
    /\ localhtml = <<>>
    /\ wspc = "none"
    /\ content \in [FileSystems -> SUBSET Files]
    /\ isdir \in [Folders -> BOOLEAN]
    /\ \A d \in Folders : ~isdir[d] => content[d] = {}
    /\ request = NoRequest
    /\ opened = NoResult
    /\ exists = FALSE

\* NewWebservice: the embedded html/ tree is the first member.
NewWebservice ==
    /\ wspc = "none"
    /\ filesystems' = Append(filesystems, Embedded)
    /\ wspc' = "constructed"
    /\ UNCHANGED <<staticfs, localhtml, content, isdir, request, opened, exists>>
    /\ OnlyFS

\* UnionFS.AddFS
AddFS(newfs) ==
    /\ wspc \in {"constructed", "started"}
    /\ Len(filesystems) < MaxFS
    /\ filesystems' = Append(filesystems, newfs)
    /\ UNCHANGED <<staticfs, localhtml, wspc, content, isdir, request, opened, exists>>
    /\ OnlyFS

\* webservice.Start: a non-empty localhtml replaces the union by the listed
\* folders, in order; static.Serve then takes the union by value.
Start(htmls) ==
    /\ wspc = "constructed"
    /\ localhtml' = htmls
    /\ LET built == IF Len(htmls) # 0
                    THEN AddLocalHTML(<<>>, htmls, 1)
                    ELSE [filesystems |-> filesystems, fatal |-> FALSE]
       IN  /\ filesystems' = built.filesystems
           /\ IF built.fatal
              THEN /\ wspc' = "exited"
                   /\ UNCHANGED staticfs
              ELSE /\ wspc' = "started"
                   /\ staticfs' = built.filesystems
    /\ UNCHANGED <<content, isdir, request, opened, exists>>
    /\ OnlyFS

\* A caller opens a name through the union (the "/" handler, ServeTemplate)
\* and asks Exists for it.
Open(filename) ==
    /\ wspc \in {"constructed", "started"}
    /\ request' = [via |-> "open", filename |-> filename, fss |-> filesystems,
                   started |-> wspc = "started"]
    /\ opened' = UnionFSOpen(filesystems, filename)
    /\ exists' = UnionFSExists(filesystems, "/", filename)
    /\ UNCHANGED <<filesystems, staticfs, localhtml, wspc, content, isdir>>
    /\ OnlyFS

\* static.Serve("/", w.UnionFS): the file is served when Exists says so.
ServeStatic(filename) ==
    /\ wspc = "started"
    /\ request' = [via |-> "static", filename |-> filename, fss |-> staticfs,
                   started |-> TRUE]
    /\ exists' = UnionFSExists(staticfs, "/", filename)
    /\ opened' = IF UnionFSExists(staticfs, "/", filename)
                 THEN UnionFSOpen(staticfs, filename)
                 ELSE [file |-> NoFile, err |-> ErrNotExist]
    /\ UNCHANGED <<filesystems, staticfs, localhtml, wspc, content, isdir>>
    /\ OnlyFS

\* ---------------------------------------------------------------------------
\* cli: PersistentPreRunE, the profile writers, PersistentPostRunE.
\* ---------------------------------------------------------------------------
\* Mutant: room for a single signal, make(chan bool, 1).
ChanCapOne == 5 - 4

\* make(chan bool, 5)
ChanCap == 5

Writers == {"fgtrace", "cpuprofile"}
HookFuncs == {"hookA", "hookB"}
NotReturned == [err |-> "none", at |-> 0]

\* The signals buffered on a writer's stop channel.
Buffered(w) == IF w = "fgtrace" THEN stopfgtrace ELSE stopprofile

IdleCli ==
    /\ pc = "idle"
    /\ dofgtrace = FALSE
    /\ cpuprofile = FALSE
    /\ cpuprofiletimeout = 0
    /\ stopprofile = 0
    /\ stopfgtrace = 0
    /\ profilewriters = 0
    /\ stopper = [w \in Writers |-> "none"]
    /\ timer = [w \in Writers |-> "none"]
    /\ stops = [w \in Writers |-> 0]
    /\ prerunhooks = <<>>
    /\ hooksrun = <<>>
    /\ datapath = "missing"
    /\ result = NotReturned

\* Package initialisation is under way: flags and the state of the data path
\* are the environment's.
CliInit ==
    /\ pc = "init"
    /\ dofgtrace \in BOOLEAN
    /\ cpuprofile \in BOOLEAN
    /\ cpuprofiletimeout \in {0, 30}
    /\ stopprofile = 0
    /\ stopfgtrace = 0
    /\ profilewriters = 0
    /\ stopper = [w \in Writers |-> "none"]
    /\ timer = [w \in Writers |-> "none"]
    /\ stops = [w \in Writers |-> 0]
    /\ prerunhooks = <<>>
    /\ hooksrun = <<>>
    /\ datapath \in {"dir", "missing", "file"}
    /\ result = NotReturned

\* AddPreRunHook, called from the init functions of the command packages.
AddPreRunHook(f) ==
    /\ pc = "init"
    /\ Len(prerunhooks) < MaxHooks
    /\ prerunhooks' = Append(prerunhooks, f)
    /\ UNCHANGED <<pc, dofgtrace, cpuprofile, cpuprofiletimeout, stopprofile, stopfgtrace,
                   profilewriters, stopper, timer, stops, hooksrun, datapath, result>>
    /\ OnlyCli

\* Root.Execute enters PersistentPreRunE; logging and the embedded profiler
\* touch none of the state below.
Execute ==
    /\ pc = "init"
    /\ pc' = "prerun.fgtrace"
    /\ UNCHANGED <<dofgtrace, cpuprofile, cpuprofiletimeout, stopprofile, stopfgtrace,
                   profilewriters, stopper, timer, stops, prerunhooks, hooksrun, datapath,
                   result>>
    /\ OnlyCli

\* if *dofgtrace { ... }: the trace starts, its stopper goroutine waits on
\* stopfgtrace, and a timeout goroutine is started when a timeout is set.
SetupFgtrace ==
    /\ pc = "prerun.fgtrace"
    /\ pc' = "prerun.cpuprofile"
    /\ IF dofgtrace
       THEN /\ profilewriters' = profilewriters + 1
            /\ stopper' = [stopper EXCEPT !["fgtrace"] = "receive"]
            /\ timer' = IF cpuprofiletimeout > 0
                        THEN [timer EXCEPT !["fgtrace"] = "sleep"]
                        ELSE timer
       ELSE UNCHANGED <<profilewriters, stopper, timer>>
    /\ UNCHANGED <<dofgtrace, cpuprofile, cpuprofiletimeout, stopprofile, stopfgtrace,
                   stops, prerunhooks, hooksrun, datapath, result>>
    /\ OnlyCli

\* if *cpuprofile { ... }: os.Create of the profile inside the data path can
\* fail (it does when the data path is no directory yet) and ends the pre-run.
SetupCpuProfile ==
    /\ pc = "prerun.cpuprofile"
    /\ \/ /\ ~cpuprofile
          /\ pc' = "prerun.datafolder"
          /\ UNCHANGED <<profilewriters, stopper, timer, result>>
       \/ /\ cpuprofile
          /\ datapath = "dir"
          /\ pc' = "prerun.datafolder"
          /\ profilewriters' = profilewriters + 1
          /\ stopper' = [stopper EXCEPT !["cpuprofile"] = "receive"]
          /\ timer' = IF cpuprofiletimeout > 0
                      THEN [timer EXCEPT !["cpuprofile"] = "sleep"]
                      ELSE timer
          /\ UNCHANGED result
       \/ /\ cpuprofile
          /\ pc' = "returned"
          /\ result' = [err |-> "cpuprofile", at |-> 0]
          /\ UNCHANGED <<profilewriters, stopper, timer>>
    /\ UNCHANGED <<dofgtrace, cpuprofile, cpuprofiletimeout, stopprofile, stopfgtrace,
                   stops, prerunhooks, hooksrun, datapath>>
    /\ OnlyCli

\* "Ensure the data folder is available": MkdirAll runs only when os.Stat
\* reports that the path does not exist.
EnsureDataFolder ==
    /\ pc = "prerun.datafolder"
    /\ \/ /\ datapath = "missing"
          /\ datapath' = "dir"
          /\ pc' = "prerun.hooks"
          /\ UNCHANGED result
       \/ /\ datapath = "missing"
          /\ pc' = "returned"
          /\ result' = [err |-> "datafolder", at |-> 0]
          /\ UNCHANGED datapath
       \/ /\ datapath # "missing"
          /\ pc' = "prerun.hooks"
          /\ UNCHANGED <<datapath, result>>
    /\ UNCHANGED <<dofgtrace, cpuprofile, cpuprofiletimeout, stopprofile, stopfgtrace,
                   profilewriters, stopper, timer, stops, prerunhooks, hooksrun>>
    /\ OnlyCli

\* One round of the loop over prerunhooks: the next hook runs, and its error
\* ends the pre-run.
RunHook ==
    /\ pc = "prerun.hooks"
    /\ Len(hooksrun) < Len(prerunhooks)
    /\ hooksrun' = Append(hooksrun, prerunhooks[Len(hooksrun) + 1])
    /\ \/ UNCHANGED <<pc, result>>
       \/ /\ pc' = "returned"
          /\ result' = [err |-> "hook", at |-> Len(hooksrun) + 1]
    /\ UNCHANGED <<dofgtrace, cpuprofile, cpuprofiletimeout, stopprofile, stopfgtrace,
                   profilewriters, stopper, timer, stops, prerunhooks, datapath>>
    /\ OnlyCli

\* return nil, after the last hook.
PreRunReturn ==
    /\ pc = "prerun.hooks"
    /\ Len(hooksrun) = Len(prerunhooks)
    /\ result' = [err |-> "nil", at |-> 0]
    /\ pc' = "run"
    /\ UNCHANGED <<dofgtrace, cpuprofile, cpuprofiletimeout, stopprofile, stopfgtrace,
                   profilewriters, stopper, timer, stops, prerunhooks, hooksrun, datapath>>
    /\ OnlyCli

\* The command itself runs; PersistentPostRunE follows only its success.
RunCommand ==
    /\ pc = "run"
    /\ pc' \in {"postrun.stopfgtrace", "returned"}
    /\ UNCHANGED <<dofgtrace, cpuprofile, cpuprofiletimeout, stopprofile, stopfgtrace,
                   profilewriters, stopper, timer, stops, prerunhooks, hooksrun, datapath,
                   result>>
    /\ OnlyCli

\* stopfgtrace <- true
PostRunStopFgtrace ==
    /\ pc = "postrun.stopfgtrace"
    /\ stopfgtrace < ChanCap
    /\ stopfgtrace' = stopfgtrace + 1
    /\ pc' = "postrun.stopprofile"
    /\ UNCHANGED <<dofgtrace, cpuprofile, cpuprofiletimeout, stopprofile, profilewriters,
                   stopper, timer, stops, prerunhooks, hooksrun, datapath, result>>
    /\ OnlyCli

\* stopprofile <- true
PostRunStopProfile ==
    /\ pc = "postrun.stopprofile"
    /\ stopprofile < ChanCap
    /\ stopprofile' = stopprofile + 1
    /\ pc' = "postrun.wait"
    /\ UNCHANGED <<dofgtrace, cpuprofile, cpuprofiletimeout, stopfgtrace, profilewriters,
                   stopper, timer, stops, prerunhooks, hooksrun, datapath, result>>
    /\ OnlyCli

\* profilewriters.Wait(); return nil
PostRunWait ==
    /\ pc = "postrun.wait"
    /\ profilewriters = 0
    /\ pc' = "done"
    /\ UNCHANGED <<dofgtrace, cpuprofile, cpuprofiletimeout, stopprofile, stopfgtrace,
                   profilewriters, stopper, timer, stops, prerunhooks, hooksrun, datapath,
                   result>>
    /\ OnlyCli

\* The stopper goroutine of writer w: <-stop channel
StopperReceive(w) ==
    /\ stopper[w] = "receive"
    /\ Buffered(w) > 0
    /\ stopper' = [stopper EXCEPT ![w] = "stop"]
    /\ IF w = "fgtrace"
       THEN stopfgtrace' = stopfgtrace - 1 /\ UNCHANGED stopprofile
       ELSE stopprofile' = stopprofile - 1 /\ UNCHANGED stopfgtrace
    /\ UNCHANGED <<pc, dofgtrace, cpuprofile, cpuprofiletimeout, profilewriters, timer,
                   stops, prerunhooks, hooksrun, datapath, result>>
    /\ OnlyCli

\* trace.Stop() / pprof.StopCPUProfile()
StopperStop(w) ==
    /\ stopper[w] = "stop"
    /\ stops' = [stops EXCEPT ![w] = @ + 1]
    /\ stopper' = [stopper EXCEPT ![w] = "done"]
    /\ UNCHANGED <<pc, dofgtrace, cpuprofile, cpuprofiletimeout, stopprofile, stopfgtrace,
                   profilewriters, timer, prerunhooks, hooksrun, datapath, result>>
    /\ OnlyCli

\* profilewriters.Done(), the goroutine ends
StopperDone(w) ==
    /\ stopper[w] = "done"
    /\ profilewriters' = profilewriters - 1
    /\ stopper' = [stopper EXCEPT ![w] = "finished"]
    /\ UNCHANGED <<pc, dofgtrace, cpuprofile, cpuprofiletimeout, stopprofile, stopfgtrace,
                   timer, stops, prerunhooks, hooksrun, datapath, result>>
    /\ OnlyCli

\* The timeout goroutine of writer w: the time has passed, stop channel <- true
TimerFire(w) ==
    /\ timer[w] = "sleep"
    /\ Buffered(w) < ChanCap
    /\ timer' = [timer EXCEPT ![w] = "fired"]
    /\ IF w = "fgtrace"
       THEN stopfgtrace' = stopfgtrace + 1 /\ UNCHANGED stopprofile
       ELSE stopprofile' = stopprofile + 1 /\ UNCHANGED stopfgtrace
    /\ UNCHANGED <<pc, dofgtrace, cpuprofile, cpuprofiletimeout, profilewriters, stopper,
                   stops, prerunhooks, hooksrun, datapath, result>>
    /\ OnlyCli

\* ---------------------------------------------------------------------------
\* Specifications
\* ---------------------------------------------------------------------------
SIDNext ==
    \/ CallMapSID
    \/ CallMapSIDAgain
    \/ CallMapSIDBack

GraphNext ==
    \/ \E s \in Objects, t \in Objects, k \in EdgeKinds : AddEdge(s, t, k)
    \/ FinishImport
    \/ \E o \in Objects : StartPath(o)
    \/ \E e \in edges : Traverse(e)

FSNext ==
    \/ NewWebservice
    \/ \E d \in Folders : AddFS(d)
    \/ \E htmls \in SeqsUpTo(Folders, MaxLocalHTML) : Start(htmls)
    \/ \E f \in Files : Open(f)
    \/ \E f \in Files : ServeStatic(f)

CliNext ==
    \/ \E f \in HookFuncs : AddPreRunHook(f)
    \/ Execute
    \/ SetupFgtrace
    \/ SetupCpuProfile
    \/ EnsureDataFolder
    \/ RunHook
    \/ PreRunReturn
    \/ RunCommand
    \/ PostRunStopFgtrace
    \/ PostRunStopProfile
    \/ PostRunWait
    \/ \E w \in Writers : StopperReceive(w)
    \/ \E w \in Writers : StopperStop(w)
    \/ \E w \in Writers : StopperDone(w)
    \/ \E w \in Writers : TimerFire(w)

InitSID == SIDInit /\ IdleGraph /\ IdleFS /\ IdleCli
InitGraph == IdleSID /\ GraphInit /\ IdleFS /\ IdleCli
InitFS == IdleSID /\ IdleGraph /\ FSInit /\ IdleCli
InitCli == IdleSID /\ IdleGraph /\ IdleFS /\ CliInit

SpecSID == InitSID /\ [][SIDNext]_vars
SpecGraph == InitGraph /\ [][GraphNext]_vars
SpecFS == InitFS /\ [][FSNext]_vars
SpecCli == InitCli /\ [][CliNext]_vars

\* The Go scheduler runs every goroutine that can take a step: the main
\* goroutine inside PersistentPostRunE and the stopper goroutines.  The
\* timeout goroutines need no fairness.
FairSpecCli ==
    /\ SpecCli
    /\ WF_vars(PostRunStopFgtrace)
    /\ WF_vars(PostRunStopProfile)
    /\ WF_vars(PostRunWait)
    /\ \A w \in Writers :
         /\ WF_vars(StopperReceive(w))
         /\ WF_vars(StopperStop(w))
         /\ WF_vars(StopperDone(w))

\* ---------------------------------------------------------------------------
\* Properties
\* ---------------------------------------------------------------------------
\* input has one more component than original and is original plus a RID.
Matches == Len(input) = Len(original) + 1 /\ SubSeq(input, 1, Len(input) - 1) = original

\* C1: MapSID(original, new, input) is new with input's last component
\* appended when input has one more component than original and input without
\* its last component is original; in every other case it is input, unchanged.
MapSIDContract ==
    sidpc = "mapped" =>
        IF Matches
        THEN mapped = new \o <<input[Len(input)]>>
        ELSE mapped = input

\* C1 witness: a matching input was mapped onto a different prefix.
MapSIDContractWitness ==
    /\ sidpc = "mapped"
    /\ Matches
    /\ Len(original) > 0
    /\ new # original
    /\ mapped # input

\* C9: mapping the result again with the same prefixes changes nothing, and
\* mapping the result of a matching input back with the prefixes swapped
\* gives the input again.
MapSIDIdempotent ==
    /\ again # NoSID => again = mapped
    /\ (back # NoSID /\ Matches) => back = input

\* C9 witness: both second calls were made on a matching, remapped input.
MapSIDIdempotentWitness ==
    /\ again # NoSID
    /\ back # NoSID
    /\ Matches
    /\ mapped # input

\* C2: an evaluation of the RDPRights calculator triggers no probability
\* evaluation (of another edge or of its own), reads none of the target's
\* edges, so it ends in the step that made it, and it returns the floor 30.
RDPRightsNonRecursive ==
    lastEval.kind = EdgeLocalRDPRights =>
        /\ lastEval.invoked = {}
        /\ lastEval.walked = {}
        /\ lastEval.probability = 30

\* C2 witness: RDPRights was evaluated on a target that a well-known
\* principal has an edge to, the case the disabled traversal looked for.
RDPRightsNonRecursiveWitness ==
    /\ lastEval.kind = EdgeLocalRDPRights
    /\ \E e \in edges : e.target = lastEval.target /\ e.source = "everyone"

\* C3: the nine edge kinds named are the ones that hold a calculator, and
\* every probability a calculator returned lies within 0..100.
CalculatorProbabilityInRange ==
    LET named == {EdgeLocalRDPRights, EdgeLocalDCOMRights, EdgeLocalSMSAdmins,
                  EdgeLocalSessionLastDay, EdgeLocalSessionLastWeek,
                  EdgeLocalSessionLastMonth, EdgeSeImpersonate,
                  EdgeSeNetworkLogonRight, EdgeSIDCollision}
    IN  /\ lastEval.kind \in named => lastEval.registered
        /\ lastEval.registered => lastEval.kind \in named
        /\ lastEval.registered => lastEval.probability \in 0..100

\* C3 witness: the calculator with the highest constant was evaluated.
CalculatorProbabilityInRangeWitness ==
    /\ lastEval.kind = EdgeLocalSessionLastDay
    /\ lastEval.registered

\* The least member of a set of probabilities; 100 when there is none.
Least(S) == IF S = {} THEN 100 ELSE CHOOSE m \in S : \A x \in S : m <= x

\* The positions of a path whose edge kind is not tagged Informative.
Scored(p) == {i \in 1..Len(p) : "Informative" \notin Tags(p[i].kind)}

\* C4: SIDCollision is tagged Informative, every collision edge on a path
\* carries probability 0, and the path's score is the score of the same path
\* without its collision edges.
CollisionEdgeNotScored ==
    /\ "Informative" \in Tags(EdgeSIDCollision)
    /\ \A i \in 1..Len(path) : path[i].kind = EdgeSIDCollision => path[i].probability = 0
    /\ score = Least({path[i].probability :
                        i \in {j \in Scored(path) : path[j].kind # EdgeSIDCollision}})

\* C4 witness: a path holds a collision edge and an edge that is scored.
CollisionEdgeNotScoredWitness ==
    /\ \E i \in 1..Len(path) : path[i].kind = EdgeSIDCollision
    /\ \E i \in 1..Len(path) : "Informative" \notin Tags(path[i].kind)
    /\ score > 0
    /\ score < 100

\* C5: the score of the in-flight path is the least probability among its
\* edges that are not Informative, each evaluated by its kind's calculator on
\* the edge's own pair; one SessionLastMonth or RDPRights edge scores 30.
PathScoreIsMinimum ==
    /\ score = Least({EdgeProbability(path[i].kind, path[i].source,
                                      path[i].target).probability : i \in Scored(path)})
    /\ (Len(path) = 1 /\ path[1].kind \in {EdgeLocalSessionLastMonth, EdgeLocalRDPRights})
         => score = 30

\* C5 witness: a path of the single edge SessionLastMonth.
PathScoreIsMinimumWitness ==
    /\ Len(path) = 1
    /\ path[1].kind = EdgeLocalSessionLastMonth

\* C6: AdminRights, SvcAccntCreds and MemberOfGroup hold no calculator and
\* evaluate to probability 100.
DefaultProbabilityMaximal ==
    lastEval.kind \in {EdgeLocalAdminRights, EdgeHasServiceAccountCredentials,
                       EdgeMemberOfGroup} =>
        /\ ~lastEval.registered
        /\ lastEval.probability = 100

\* C6 witness: an AdminRights edge was evaluated.
DefaultProbabilityMaximalWitness == lastEval.kind = EdgeLocalAdminRights

\* The least index of a non-empty set of indexes.
First(I) == CHOOSE i \in I : \A j \in I : i <= j

\* C7: Open answers with the file of the earliest member, in AddFS order,
\* that opens the name, and with os.ErrNotExist exactly when none does; Exists
\* is true exactly when Open succeeds; after Start with a non-empty localhtml a
\* name held by a listed folder comes from the earliest listed folder holding it.
UnionFSFirstWins ==
    request.via # "none" =>
        LET f == request.filename
            holders == {i \in 1..Len(request.fss) : f \in content[request.fss[i]]}
            listed == {i \in 1..Len(localhtml) : f \in content[localhtml[i]]}
        IN  /\ (holders = {}) <=> (opened.err = ErrNotExist)
            /\ holders # {} =>
                 opened = [file |-> <<request.fss[First(holders)], f>>, err |-> NoError]
            /\ exists <=> (opened.err = NoError)
            /\ (request.started /\ localhtml # <<>> /\ listed # {}) =>
                 opened.file = <<localhtml[First(listed)], f>>

\* C7 witness: two different listed folders hold the requested name.
UnionFSFirstWinsWitness ==
    /\ request.via = "static"
    /\ Len(localhtml) = 2
    /\ localhtml[1] # localhtml[2]
    /\ request.filename \in content[localhtml[1]] \cap content[localhtml[2]]
    /\ opened.err = NoError

\* No sender stands at a full channel, no writer is stopped twice, and the
\* post-run hook has returned only with every started writer stopped.
ProfileStopSafety ==
    /\ stopfgtrace <= ChanCap
    /\ stopprofile <= ChanCap
    /\ pc = "postrun.stopfgtrace" => stopfgtrace < ChanCap
    /\ pc = "postrun.stopprofile" => stopprofile < ChanCap
    /\ \A w \in Writers : timer[w] = "sleep" => Buffered(w) < ChanCap
    /\ \A w \in Writers : stops[w] <= 1
    /\ pc = "done" =>
         \A w \in Writers : stopper[w] # "none" => (stops[w] = 1 /\ stopper[w] = "finished")

\* C8: in every interleaving no send on stopprofile or stopfgtrace blocks,
\* each started profile writer is stopped once and no more, and
\* PersistentPostRunE, once entered, returns, with every started writer stopped.
ProfilersStopOnce ==
    /\ []ProfileStopSafety
    /\ (pc = "postrun.stopfgtrace") ~> (pc = "done")

\* C8 witness: the post-run hook has returned after both writers were
\* signalled by their timeout and by the hook.
ProfilersStopOnceWitness ==
    /\ pc = "done"
    /\ \A w \in Writers : stopper[w] = "finished" /\ timer[w] = "fired" /\ stops[w] = 1

IsPrefix(s, t) == Len(s) <= Len(t) /\ SubSeq(t, 1, Len(s)) = s

\* The order and error clauses of C10 (all but the data folder's existence).
PreRunHooksOrder ==
    /\ IsPrefix(hooksrun, prerunhooks)
    /\ hooksrun # <<>> => pc \notin {"init", "prerun.fgtrace", "prerun.cpuprofile",
                                     "prerun.datafolder"}
    /\ result.err = "hook" => (pc = "returned" /\ Len(hooksrun) = result.at)
    /\ result.err \in {"datafolder", "cpuprofile"} => (pc = "returned" /\ hooksrun = <<>>)
    /\ result.err = "nil" => hooksrun = prerunhooks

\* C10: the hooks run in the order they were added and only once the data
\* folder exists; the first failing hook ends the sequence with an error, a
\* failure to create the data folder returns an error before any hook, and a
\* nil return means every hook ran once.
PreRunHooksContract ==
    /\ PreRunHooksOrder
    /\ hooksrun # <<>> => datapath = "dir"

====
